---- MODULE Spec2Model ----
(***************************************************************************)
(* Model of src/components/globalNav.js: the GlobalNav bottom navigation   *)
(* component, its action sheet (Add / Search) and the module-level         *)
(* singleton factory initGlobalNav / getGlobalNav.                         *)
(*                                                                         *)
(* A GlobalNav object and the DOM elements it creates are kept together in *)
(* one heap record.  Objects are numbered 1, 2, ... in construction order; *)
(* 0 stands for null / undefined.  The elements are appended to the body   *)
(* in that order too, so "first in document order" is "lowest number".     *)
(***************************************************************************)
EXTENDS Integers, Sequences, FiniteSets, TLC

\* ---------------------------------------------------------------- bounds
MaxHistory == 2         \* session-history entries pushed by pushState
MaxTimers  == 1         \* focus time-outs pending at the same time

\* ------------------------------------------------------ program constants
MaxChecks == 10         \* the fallback interval stops once checks > 10

Null      == 0              \* null / undefined reference to an object or element
Undefined == "undefined"    \* a missing option or argument
NoSheet   == "null"         \* activeSheet = null

\* --------------------------------------------------------------- strings
\* String.prototype.includes is computed on the characters of the string.
CharsOf(s) ==
  CASE s = "/"             -> <<"/">>
    [] s = "/index.html"   -> <<"/", "i", "n", "d", "e", "x", ".", "h", "t", "m", "l">>
    [] s = "/tracker.html" -> <<"/", "t", "r", "a", "c", "k", "e", "r", ".", "h", "t", "m", "l">>
    [] s = "/reports.html" -> <<"/", "r", "e", "p", "o", "r", "t", "s", ".", "h", "t", "m", "l">>
    [] s = "/profile.html" -> <<"/", "p", "r", "o", "f", "i", "l", "e", ".", "h", "t", "m", "l">>
    [] s = "tracker"       -> <<"t", "r", "a", "c", "k", "e", "r">>
    [] s = "reports"       -> <<"r", "e", "p", "o", "r", "t", "s">>
    [] s = "profile"       -> <<"p", "r", "o", "f", "i", "l", "e">>
    [] s = "index"         -> <<"i", "n", "d", "e", "x">>

Includes(hay, needle) ==
  LET h == CharsOf(hay)
      n == CharsOf(needle)
  IN  \E i \in 1..(Len(h) - Len(n) + 1) : SubSeq(h, i, i + Len(n) - 1) = n

\* The documents of the site, by window.location.pathname.
Pathnames == {"/", "/index.html", "/tracker.html", "/reports.html", "/profile.html"}

\* The pathname a location.href assignment leads to (the query is no part of it).
PathOfHref(h) ==
  CASE h = "index.html"                      -> "/index.html"
    [] h = "index.html?action=search-trails" -> "/index.html"
    [] h = "tracker.html"                    -> "/tracker.html"
    [] h = "reports.html"                    -> "/reports.html"
    [] h = "reports.html?action=create"      -> "/reports.html"
    [] h = "reports.html?action=search"      -> "/reports.html"
    [] h = "profile.html"                    -> "/profile.html"

\* ------------------------------------------------------- sheet contents
NoOptions == << >>      \* "<!-- Options populated dynamically -->"

AddOptions ==
  << [cls |-> "trail",  title |-> "Record Trail", page |-> "tracker", action |-> Undefined],
     [cls |-> "report", title |-> "Report Issue", page |-> "reports", action |-> "create"] >>

SearchOptions ==
  << [cls |-> "search-trails",  title |-> "Find Trails",  page |-> "home",    action |-> "search-trails"],
     [cls |-> "search-reports", title |-> "Find Reports", page |-> "reports", action |-> "search"] >>

\* ------------------------------------------------------------ the state
VARIABLES
  pathname,           \* window.location.pathname of the loaded document
  href,               \* last value assigned to window.location.href, "" if none
  globalNavInstance,  \* module variable: Null or the number of an object
  windowGlobalNav,    \* window.globalNav: Null or the number of an object
  heap,               \* the GlobalNav objects constructed, with their elements
  initRuns,           \* number of init() runs in this document
  bodyClass,          \* document.body carries class has-bottom-nav
  popstateListeners,  \* window 'popstate' listeners, by object
  keydownListeners,   \* document 'keydown' listeners, by object
  authListeners,      \* window 'authStateChanged' listeners, by profile link
  history,            \* session history: [len, idx] of the pushed entries
  focusTimers,        \* pending setTimeout callbacks, by captured optionsEl
  focusTarget,        \* the option focus() was last called on, by its optionsEl
  isLoggedIn,         \* the auth state checkAuth reads
  lastCall            \* last initGlobalNav / getGlobalNav call and its result

vars == << pathname, href, globalNavInstance, windowGlobalNav, heap, initRuns,
           bodyClass, popstateListeners, keydownListeners, authListeners,
           history, focusTimers, focusTarget, isLoggedIn, lastCall >>

\* The part of the state the methods of GlobalNav read and write.
World ==
  [ pathname |-> pathname, href |-> href, globalNavInstance |-> globalNavInstance,
    windowGlobalNav |-> windowGlobalNav, heap |-> heap, initRuns |-> initRuns,
    bodyClass |-> bodyClass, popstateListeners |-> popstateListeners,
    keydownListeners |-> keydownListeners, authListeners |-> authListeners,
    history |-> history, focusTimers |-> focusTimers, focusTarget |-> focusTarget,
    isLoggedIn |-> isLoggedIn ]

Commit(w) ==
  /\ pathname' = w.pathname
  /\ href' = w.href
  /\ globalNavInstance' = w.globalNavInstance
  /\ windowGlobalNav' = w.windowGlobalNav
  /\ heap' = w.heap
  /\ initRuns' = w.initRuns
  /\ bodyClass' = w.bodyClass
  /\ popstateListeners' = w.popstateListeners
  /\ keydownListeners' = w.keydownListeners
  /\ authListeners' = w.authListeners
  /\ history' = w.history
  /\ focusTimers' = w.focusTimers
  /\ focusTarget' = w.focusTarget
  /\ isLoggedIn' = w.isLoggedIn

\* ------------------------------------------------------- DOM look-ups
\* document.getElementById returns the first element with the id in document
\* order: the element of the lowest-numbered object still in the document.
FirstOf(S) == IF S = {} THEN Null ELSE CHOOSE i \in S : \A j \in S : i <= j

NavsInDoc(w)     == {i \in 1..Len(w.heap) : w.heap[i].navInDoc}
OverlaysInDoc(w) == {i \in 1..Len(w.heap) : w.heap[i].overlayInDoc}

\* getElementById('globalNavAdd' | 'globalNavSearch' | 'globalNavProfile')
NavById(w) == FirstOf(NavsInDoc(w))
\* getElementById('actionSheetTitle' | 'actionSheetOptions')
SheetById(w) == FirstOf(OverlaysInDoc(w))

\* --------------------------------------------------- GlobalNav methods
\* Each method is an operator from the world before the call to the world
\* after it; `this` is the number of the object.

detectCurrentPage(w) ==
  IF Includes(w.pathname, "tracker") THEN "tracker"
  ELSE IF Includes(w.pathname, "reports") THEN "reports"
  ELSE IF Includes(w.pathname, "profile") THEN "profile"
  ELSE "home"

\* new GlobalNav(options): the object is appended to the heap.  The fields of
\* the elements it will own start as "not created".
Constructor(w, options) ==
  [w EXCEPT !.heap = Append(@,
     [ currentPage     |-> IF options.currentPage # Undefined
                           THEN options.currentPage ELSE detectCurrentPage(w),
       onNavigate      |-> options.onNavigate,
       activeSheet     |-> NoSheet,
       navInDoc        |-> FALSE,
       overlayInDoc    |-> FALSE,
       overlayActive   |-> FALSE,
       titleText       |-> "Choose an option",
       optionsHTML     |-> NoOptions,
       profileDisplay  |-> "",
       addListeners    |-> << >>,
       searchListeners |-> << >>,
       interval        |-> [link |-> Null, checks |-> 0, on |-> FALSE] ])]

closeActionSheet(w, this) ==
  [w EXCEPT !.heap[this].overlayActive = FALSE,
            !.heap[this].activeSheet = NoSheet]

pushState(h) == [len |-> h.idx + 1, idx |-> h.idx + 1]

showActionSheet(w, this, title, optionsHTML) ==
  LET el == SheetById(w)      \* titleEl and optionsEl sit in the same overlay
      w1 == IF el # Null
            THEN [w EXCEPT !.heap[el].titleText = title,
                           !.heap[el].optionsHTML = optionsHTML]
            ELSE w
  IN  [w1 EXCEPT !.history = pushState(@),
                 !.heap[this].overlayActive = TRUE,
                 !.focusTimers = Append(@, el)]

showAddSheet(w, this) ==
  [showActionSheet(w, this, "Contribute", AddOptions)
     EXCEPT !.heap[this].activeSheet = "add"]

\* showSearchSheet filling the sheet with the options of showAddSheet.
showSearchSheet_addOptions(w, this) ==
  [showActionSheet(w, this, "Discover", AddOptions)
     EXCEPT !.heap[this].activeSheet = "search"]

showSearchSheet(w, this) ==
  [showActionSheet(w, this, "Discover", SearchOptions)
     EXCEPT !.heap[this].activeSheet = "search"]

\* The href the switch of navigate() assigns, "" where it assigns none.
NavigateHref(w, page, action) ==
  CASE page = "home" ->
         IF action = "search-trails"
         THEN IF Includes(w.pathname, "index") THEN ""   \* window.openTrailBrowser?.()
              ELSE "index.html?action=search-trails"
         ELSE "index.html"
    [] page = "tracker" -> "tracker.html"
    [] page = "reports" ->
         IF action = "create" THEN "reports.html?action=create"
         ELSE IF action = "search" THEN "reports.html?action=search"
         ELSE "reports.html"
    [] page = "profile" -> "profile.html"
    [] OTHER -> ""

\* The onNavigate callback called last is code of the page: it is given the
\* page and the action and is no part of this state.
navigate(w, this, page, action) ==
  LET w1 == closeActionSheet(w, this)
      h  == NavigateHref(w1, page, action)
  IN  IF h # "" THEN [w1 EXCEPT !.href = h] ELSE w1

\* checkAuth of updateProfileVisibility, for the profile link it captured.
checkAuth(w, link) ==
  [w EXCEPT !.heap[link].profileDisplay = IF w.isLoggedIn THEN "" ELSE "none"]

updateProfileVisibility(w, this) ==
  LET link == NavById(w)
  IN  IF link = Null THEN w
      ELSE [checkAuth(w, link)
              EXCEPT !.authListeners = Append(@, link),
                     !.heap[this].interval = [link |-> link, checks |-> 0, on |-> TRUE]]

createActionSheetOverlay(w, this) ==
  [w EXCEPT !.heap[this].overlayInDoc = TRUE,
            !.heap[this].titleText = "Choose an option",
            !.heap[this].optionsHTML = NoOptions]

bindEvents(w, this) ==
  LET btn == NavById(w)       \* the nav holding #globalNavAdd and #globalNavSearch
      w1  == IF btn # Null
             THEN [w EXCEPT !.heap[btn].addListeners = Append(@, this),
                            !.heap[btn].searchListeners = Append(@, this)]
             ELSE w
  IN  [w1 EXCEPT !.keydownListeners = Append(@, this)]

render(w, this) ==
  LET w1 == [w EXCEPT !.heap[this].navInDoc = TRUE]
      w2 == createActionSheetOverlay(w1, this)
      w3 == bindEvents(w2, this)
  IN  updateProfileVisibility(w3, this)

init(w, this) ==
  LET w1 == [w EXCEPT !.bodyClass = TRUE]
      w2 == render(w1, this)
  IN  [w2 EXCEPT !.popstateListeners = Append(@, this),
                 !.initRuns = @ + 1]

\* ------------------------------------------------- the singleton factory
\* initGlobalNav without its `if (!globalNavInstance)` guard.
initGlobalNav_unguarded(w, options) ==
  LET w1   == Constructor(w, options)
      this == Len(w1.heap)
      w2   == init([w1 EXCEPT !.globalNavInstance = this], this)
  IN  [w |-> [w2 EXCEPT !.windowGlobalNav = this], ret |-> this]

\* initGlobalNav(options): the world after the call and the value returned.
initGlobalNav(w, options) ==
  IF w.globalNavInstance = Null
  THEN LET w1   == Constructor(w, options)
           this == Len(w1.heap)
           w2   == init([w1 EXCEPT !.globalNavInstance = this], this)
       IN  [w |-> [w2 EXCEPT !.windowGlobalNav = this], ret |-> this]
  ELSE [w |-> w, ret |-> w.globalNavInstance]

getGlobalNav(w) == w.globalNavInstance

\* ------------------------------------------------------ event listeners
\* The overlay 'click' listener without its `e.target === overlay` test.
overlayClick_anyTarget(w, this, target) == closeActionSheet(w, this)

\* overlay 'click' listener of createActionSheetOverlay: e.target === overlay
overlayClick(w, this, target) ==
  IF target = "overlay" THEN closeActionSheet(w, this) ELSE w

\* 'click' listener of the .action-sheet-close button
closeButtonClick(w, this) == closeActionSheet(w, this)

\* document 'keydown' listener of bindEvents
keydown(w, this, key) ==
  IF key = "Escape" /\ w.heap[this].activeSheet # NoSheet
  THEN closeActionSheet(w, this)
  ELSE w

\* The listener registered for an event type by, or for, x; e is what the
\* listener reads of the event.
Listener(type, e, w, x) ==
  CASE type = "click #globalNavAdd"    -> showAddSheet(w, x)
    [] type = "click #globalNavSearch" -> showSearchSheet(w, x)
    [] type = "keydown"                -> keydown(w, x, e)
    [] type = "popstate"               -> closeActionSheet(w, x)
    [] type = "authStateChanged"       -> checkAuth(w, x)

\* The listeners of a target are run in the order they were registered.
RECURSIVE Dispatch(_, _, _, _)
Dispatch(type, e, w, listeners) ==
  IF listeners = << >> THEN w
  ELSE Dispatch(type, e, Listener(type, e, w, Head(listeners)), Tail(listeners))

\* onclick="globalNav.navigate(page, action)" of an option button; the global
\* name resolves to window.globalNav, and the call throws if that is unset.
optionClick(w, opt) ==
  IF w.windowGlobalNav = Null THEN w
  ELSE navigate(w, w.windowGlobalNav, opt.page, opt.action)

\* The callback of the setTimeout of showActionSheet, for its optionsEl.
focusFirstOption(w, optionsEl) ==
  IF optionsEl # Null /\ w.heap[optionsEl].optionsHTML # NoOptions
  THEN [w EXCEPT !.focusTarget =
          [el |-> optionsEl, cls |-> w.heap[optionsEl].optionsHTML[1].cls]]
  ELSE w

\* The callback of the setInterval of updateProfileVisibility of `this`.
intervalTick(w, this) ==
  LET iv == w.heap[this].interval
      w1 == checkAuth(w, iv.link)
      n  == iv.checks + 1
  IN  [w1 EXCEPT !.heap[this].interval.checks = n,
                 !.heap[this].interval.on = ~(n > MaxChecks)]

\* -------------------------------------------------------------- inputs
OptionPages == {Undefined, "profile"}
Callbacks   == {Undefined, "cb"}
Options     == [currentPage : OptionPages, onNavigate : Callbacks]
\* The navigate(page, action) calls made: those of the four options, the two
\* plain pages the switch knows beside them, and a page it does not know.
NavCalls    == { <<AddOptions[i].page, AddOptions[i].action>> : i \in 1..2 }
               \cup { <<SearchOptions[i].page, SearchOptions[i].action>> : i \in 1..2 }
               \cup { <<"home", Undefined>>, <<"profile", Undefined>>, <<"settings", Undefined>> }
Keys        == {"Escape", "Tab"}
\* Where a click in an overlay can land: the backdrop, the dialog outside its
\* buttons (header, title, options container), the close button, an option.
Targets     == {"overlay", "sheet", "close", "option1", "option2"}
OptionIndex(t) == IF t = "option1" THEN 1 ELSE 2

NoCall       == [fn |-> "none", ret |-> Null]
NoHistory    == [len |-> 0, idx |-> 0]
NoFocus      == [el |-> Null, cls |-> "none"]

\* ---------------------------------------------------------------- Init
\* A freshly loaded document of the site: the module has been evaluated
\* (globalNavInstance = null) and nothing is mounted.
FreshDocument(path, loggedIn) ==
  [ pathname |-> path, href |-> "", globalNavInstance |-> Null,
    windowGlobalNav |-> Null, heap |-> << >>, initRuns |-> 0,
    bodyClass |-> FALSE, popstateListeners |-> << >>,
    keydownListeners |-> << >>, authListeners |-> << >>,
    history |-> NoHistory, focusTimers |-> << >>, focusTarget |-> NoFocus,
    isLoggedIn |-> loggedIn ]

Init ==
  \E path \in Pathnames, loggedIn \in BOOLEAN :
    LET w == FreshDocument(path, loggedIn)
    IN  /\ pathname = w.pathname
        /\ href = w.href
        /\ globalNavInstance = w.globalNavInstance
        /\ windowGlobalNav = w.windowGlobalNav
        /\ heap = w.heap
        /\ initRuns = w.initRuns
        /\ bodyClass = w.bodyClass
        /\ popstateListeners = w.popstateListeners
        /\ keydownListeners = w.keydownListeners
        /\ authListeners = w.authListeners
        /\ history = w.history
        /\ focusTimers = w.focusTimers
        /\ focusTarget = w.focusTarget
        /\ isLoggedIn = w.isLoggedIn
        /\ lastCall = NoCall

\* -------------------------------------------------------------- actions
\* An assignment to location.href starts a navigation and the browser replaces
\* the document: from then on the old document handles nothing more, and the
\* next step is the load of the new one.
DocumentLive == href = ""

InitGlobalNav(options) ==
  LET r == initGlobalNav(World, options)
  IN  /\ DocumentLive
      /\ lastCall' = [fn |-> "initGlobalNav", ret |-> r.ret]
      /\ Commit(r.w)

GetGlobalNav ==
  /\ DocumentLive
  /\ lastCall' = [fn |-> "getGlobalNav", ret |-> getGlobalNav(World)]
  /\ Commit(World)

\* A click on #globalNavAdd of the nav of object n.
ClickAdd(n) ==
  /\ DocumentLive
  /\ n \in NavsInDoc(World)
  /\ history.idx < MaxHistory
  /\ Len(focusTimers) < MaxTimers
  /\ UNCHANGED lastCall
  /\ Commit(Dispatch("click #globalNavAdd", Undefined, World, heap[n].addListeners))

\* A click on #globalNavSearch of the nav of object n.
ClickSearch(n) ==
  /\ DocumentLive
  /\ n \in NavsInDoc(World)
  /\ history.idx < MaxHistory
  /\ Len(focusTimers) < MaxTimers
  /\ UNCHANGED lastCall
  /\ Commit(Dispatch("click #globalNavSearch", Undefined, World, heap[n].searchListeners))

\* The world after a click with the given target in the overlay of object o:
\* the listeners on the path from the target up to the overlay run.
Clicked(w, o, target) ==
  CASE target = "overlay" -> overlayClick(w, o, target)
    [] target = "sheet"   -> overlayClick(w, o, target)
    [] target = "close"   -> overlayClick(closeButtonClick(w, o), o, target)
    [] OTHER -> overlayClick(optionClick(w, w.heap[o].optionsHTML[OptionIndex(target)]),
                             o, target)

\* A click in the overlay of object o, shown or not (the style sheet that
\* hides an overlay without 'active' is not part of this file, and click()
\* can be called on a hidden element).  An option can be clicked once the
\* options container holds it.
ClickInOverlay(o, target) ==
  /\ DocumentLive
  /\ o \in OverlaysInDoc(World)
  /\ target \in {"option1", "option2"} => OptionIndex(target) <= Len(heap[o].optionsHTML)
  /\ UNCHANGED lastCall
  /\ Commit(Clicked(World, o, target))

Keydown(key) ==
  /\ DocumentLive
  /\ UNCHANGED lastCall
  /\ Commit(Dispatch("keydown", key, World, keydownListeners))

\* The back or forward button inside the entries pushed by this document:
\* the history moves by delta and 'popstate' is dispatched on the window.
Popstate(delta) ==
  /\ DocumentLive
  /\ history.idx + delta \in 0..history.len
  /\ UNCHANGED lastCall
  /\ Commit(Dispatch("popstate", Undefined,
                     [World EXCEPT !.history.idx = @ + delta], popstateListeners))

\* A call of globalNav.navigate(page, action) from the page.
Navigate(page, action) ==
  /\ DocumentLive
  /\ <<page, action>> \in NavCalls
  /\ windowGlobalNav # Null
  /\ UNCHANGED lastCall
  /\ Commit(navigate(World, windowGlobalNav, page, action))

FocusTimeout ==
  /\ DocumentLive
  /\ focusTimers # << >>
  /\ UNCHANGED lastCall
  /\ Commit(focusFirstOption([World EXCEPT !.focusTimers = Tail(@)], Head(focusTimers)))

IntervalTick(i) ==
  /\ DocumentLive
  /\ i \in 1..Len(heap)
  /\ heap[i].interval.on
  /\ UNCHANGED lastCall
  /\ Commit(intervalTick(World, i))

\* The user signs in or out; the page may or may not announce it.
AuthChange(announced) ==
  LET w1 == [World EXCEPT !.isLoggedIn = ~@]
  IN  /\ DocumentLive
      /\ UNCHANGED lastCall
      /\ Commit(IF announced THEN Dispatch("authStateChanged", Undefined, w1, authListeners) ELSE w1)

\* The navigation started by an assignment to location.href completes: the
\* document is replaced by a fresh one; the sign-in state is kept.
PageLoad ==
  /\ ~DocumentLive
  /\ lastCall' = NoCall
  /\ Commit(FreshDocument(PathOfHref(href), isLoggedIn))

Next ==
  \/ \E options \in Options : InitGlobalNav(options)
  \/ GetGlobalNav
  \/ \E n \in 1..Len(heap) : ClickAdd(n)
  \/ \E n \in 1..Len(heap) : ClickSearch(n)
  \/ \E o \in 1..Len(heap), target \in Targets : ClickInOverlay(o, target)
  \/ \E key \in Keys : Keydown(key)
  \/ \E delta \in {-1, 1} : Popstate(delta)
  \/ \E call \in NavCalls : Navigate(call[1], call[2])
  \/ FocusTimeout
  \/ \E i \in 1..Len(heap) : IntervalTick(i)
  \/ \E announced \in BOOLEAN : AuthChange(announced)
  \/ PageLoad

\* ================================================================ claims
Objects == 1..Len(heap)

\* The state the methods work on, without the record of the last call.
world == << pathname, href, globalNavInstance, windowGlobalNav, heap, initRuns,
            bodyClass, popstateListeners, keydownListeners, authListeners,
            history, focusTimers, focusTarget, isLoggedIn >>

\* At most one object is constructed and init() runs at most once; once the
\* object exists exactly one nav bar and one overlay are mounted; the module
\* variable and window.globalNav name that object; and the value the last
\* initGlobalNav or getGlobalNav call returned is that object (null for a
\* getGlobalNav before the first initGlobalNav).
SingletonState ==
  /\ Len(heap) <= 1
  /\ initRuns = Len(heap)
  /\ Cardinality(NavsInDoc(World)) = Len(heap)
  /\ Cardinality(OverlaysInDoc(World)) = Len(heap)
  /\ Len(popstateListeners) = Len(heap)
  /\ Len(keydownListeners) = Len(heap)
  /\ globalNavInstance = Len(heap)
  /\ windowGlobalNav = Len(heap)
  /\ lastCall.fn = "initGlobalNav" => lastCall.ret = 1 /\ Len(heap) = 1
  /\ lastCall.fn = "getGlobalNav" => lastCall.ret = Len(heap)

\* An initGlobalNav call made when the instance exists changes nothing, whatever
\* its options, and returns the instance.
LaterInitIgnored ==
  \A options \in Options :
    (globalNavInstance # Null /\ InitGlobalNav(options))
      => (UNCHANGED world /\ lastCall'.ret = globalNavInstance)

\* A getGlobalNav call changes nothing and returns null before the first
\* initGlobalNav and the instance after it.
GetReturnsInstance ==
  GetGlobalNav => (UNCHANGED world /\ lastCall'.ret = IF heap = << >> THEN Null ELSE 1)

\* C1: initGlobalNav is a singleton factory: over any sequence of calls and
\* events at most one GlobalNav is constructed and init() runs at most once
\* (one nav bar, one overlay); every initGlobalNav call returns that instance
\* and the options of every call after the first are ignored; getGlobalNav
\* returns null before the first initGlobalNav and that instance afterwards.
C1_Singleton ==
  /\ []SingletonState
  /\ [][LaterInitIgnored /\ GetReturnsInstance]_vars

\* An initGlobalNav call made after a sheet was opened, hence after the first
\* call, has returned the one instance, whose fields are those of the first call.
C1_Witness ==
  /\ lastCall = [fn |-> "initGlobalNav", ret |-> 1]
  /\ history.len > 0
  /\ Len(heap) = 1
  /\ initRuns = 1

\* What the sheet of object i shows: the title and the option titles of the
\* overlay it owns, while that overlay carries class 'active'.
Shows(i, title, optionTitles) ==
  /\ heap[i].overlayInDoc
  /\ heap[i].overlayActive
  /\ heap[i].titleText = title
  /\ [k \in 1..Len(heap[i].optionsHTML) |-> heap[i].optionsHTML[k].title] = optionTitles

SheetState ==
  \A i \in Objects :
    /\ heap[i].activeSheet \in {NoSheet, "add", "search"}
    /\ heap[i].activeSheet = "add" => Shows(i, "Contribute", <<"Record Trail", "Report Issue">>)
    /\ heap[i].activeSheet = "search" => Shows(i, "Discover", <<"Find Trails", "Find Reports">>)
    /\ heap[i].activeSheet = NoSheet => ~heap[i].overlayActive

\* A click on the Add button leaves the Add sheet open and a click on the
\* Search button the Search sheet, whatever was open before.
ButtonsOpen ==
  \A n \in Objects :
    /\ ClickAdd(n) => heap'[n].activeSheet = "add"
    /\ ClickSearch(n) => heap'[n].activeSheet = "search"

\* C2: the Add button opens the action sheet with Record Trail / Report Issue
\* and the Search button opens it with Find Trails / Find Reports; after any
\* sequence of clicks and close events activeSheet is null, 'add' or 'search',
\* with 'add' the one sheet shows 'Contribute' and the Add options, with
\* 'search' it shows 'Discover' and the Search options, and with null the
\* overlay is not shown.
C2_SheetMatchesButton ==
  /\ []SheetState
  /\ [][ButtonsOpen]_vars

\* The Search sheet is open after the Add sheet was: the first option of the
\* Add sheet was focused, two entries were pushed, and the sheet shown now is
\* the Search one.
C2_Witness ==
  /\ Len(heap) = 1
  /\ heap[1].activeSheet = "search"
  /\ focusTarget = [el |-> 1, cls |-> "trail"]
  /\ history = [len |-> 2, idx |-> 2]
  /\ Shows(1, "Discover", <<"Find Trails", "Find Reports">>)

Open(i)   == heap[i].activeSheet # NoSheet
Closed(i) == heap[i].activeSheet = NoSheet /\ ~heap[i].overlayActive

\* Object i has a sheet open before the step and still after it.
StaysOpen(i) == Open(i) /\ ~Closed(i)'

\* The steps that close: a step that leaves the sheet of an object open is
\* none of the closing events, so each of them, taken with a sheet open,
\* closes it.
ClosingEvents ==
  \A i \in Objects :
    StaysOpen(i) =>
      /\ ~ClickInOverlay(i, "overlay")
      /\ ~ClickInOverlay(i, "close")
      /\ ~Keydown("Escape")
      /\ ~\E delta \in {-1, 1} : Popstate(delta)
      /\ ~\E call \in NavCalls : Navigate(call[1], call[2])
      /\ ~\E t \in {"option1", "option2"} : ClickInOverlay(i, t)

\* The steps that do not: a click inside the dialog that is on none of its
\* buttons, a key other than Escape, and Escape with no sheet open, change
\* nothing at all.
NonClosingEvents ==
  /\ \A i \in Objects : ClickInOverlay(i, "sheet") => UNCHANGED vars
  /\ Keydown("Tab") => UNCHANGED vars
  /\ (Keydown("Escape") /\ \A i \in Objects : ~Open(i)) => UNCHANGED vars

\* C3: with a sheet open, a click on the overlay backdrop itself, a click on
\* the close button, the Escape key, the back button (popstate) and a call of
\* navigate() each close it: the overlay loses 'active' and activeSheet becomes
\* null.  A click inside the sheet, on none of its buttons, does not close it,
\* and Escape with no sheet open changes nothing.
C3_CloseEvents == [][ClosingEvents /\ NonClosingEvents]_vars

\* The back button has closed the Add sheet: an entry lies ahead in the
\* history, the sheet still holds the Add content and is not shown.
C3_Witness ==
  /\ Len(heap) = 1
  /\ Closed(1)
  /\ heap[1].titleText = "Contribute"
  /\ heap[1].optionsHTML = AddOptions
  /\ history = [len |-> 1, idx |-> 0]

Spec == Init /\ [][Next]_vars

====
